---- MODULE Spec2Model ----
(***************************************************************************)
(* A model of src/src/tools/ns.py: the station resolver                     *)
(* (resolve_station_code), the NS tools that call it, and the trip ranking  *)
(* inside ns_plan_trip.                                                     *)
(*                                                                          *)
(* Python strings are sequences of one-character strings.  JSON / Python    *)
(* values are tagged records: JNull is None/null, S(s) a str, N(n) an int,  *)
(* L(seq) a list, D(rec) a dict (rec is a TLA+ record holding exactly the   *)
(* keys that are present).                                                  *)
(***************************************************************************)
EXTENDS Integers, Sequences, FiniteSets, TLC

(***************************************************************************)
(* Bounds of the model.                                                    *)
(***************************************************************************)
MaxQueryLen == 1
MaxHits == 1
MaxDir == 2
MaxTrips == 3

(***************************************************************************)
(* Characters and the str methods the resolver uses.                       *)
(***************************************************************************)
UpperChars == {"A", "X", "Y"}
LowerChars == {"a", "b", "x", "y"}
DigitChars == {"1"}
SpaceChars == {" "}

Ord(c) ==
    CASE c = " " -> 32
      [] c = "1" -> 49
      [] c = "A" -> 65
      [] c = "X" -> 88
      [] c = "Y" -> 89
      [] c = "a" -> 97
      [] c = "b" -> 98
      [] c = "x" -> 120
      [] c = "y" -> 121

LowerChar(c) ==
    CASE c = "A" -> "a"
      [] c = "X" -> "x"
      [] c = "Y" -> "y"
      [] OTHER -> c

lower(s) == [i \in 1..Len(s) |-> LowerChar(s[i])]

isdigit(s) == Len(s) > 0 /\ \A i \in 1..Len(s) : s[i] \in DigitChars

isupper(s) ==
    /\ \E i \in 1..Len(s) : s[i] \in UpperChars
    /\ \A i \in 1..Len(s) : s[i] \notin LowerChars

RECURSIVE lstrip(_)
lstrip(s) ==
    IF s # <<>> /\ Head(s) \in SpaceChars THEN lstrip(Tail(s)) ELSE s

RECURSIVE rstrip(_)
rstrip(s) ==
    IF s # <<>> /\ s[Len(s)] \in SpaceChars
    THEN rstrip(SubSeq(s, 1, Len(s) - 1))
    ELSE s

strip(s) == rstrip(lstrip(s))

\* s < t in Python's str ordering (code point by code point, prefix first)
RECURSIVE StrLess(_, _)
StrLess(s, t) ==
    IF t = <<>> THEN FALSE
    ELSE IF s = <<>> THEN TRUE
    ELSE IF Head(s) = Head(t) THEN StrLess(Tail(s), Tail(t))
    ELSE Ord(Head(s)) < Ord(Head(t))

(***************************************************************************)
(* Python / JSON values.                                                   *)
(***************************************************************************)
JNull == [t |-> "null"]
S(s) == [t |-> "str", v |-> s]
N(n) == [t |-> "int", v |-> n]
L(seq) == [t |-> "list", v |-> seq]
D(rec) == [t |-> "dict", v |-> rec]
EmptyDict == D(<<>>)

\* bool(x)
Truthy(x) ==
    CASE x.t = "null" -> FALSE
      [] x.t = "str"  -> x.v # <<>>
      [] x.t = "int"  -> x.v # 0
      [] x.t = "list" -> x.v # <<>>
      [] x.t = "dict" -> DOMAIN x.v # {}
      [] OTHER -> TRUE

HasKey(d, k) == k \in DOMAIN d.v

\* d.get(k, default) on a dict d
Get(d, k, default) == IF HasKey(d, k) THEN d.v[k] ELSE default

(***************************************************************************)
(* difflib.SequenceMatcher and get_close_matches (no junk: autojunk only   *)
(* applies to sequences of 200 or more elements).  Indices are 1-based,    *)
(* ranges are half-open [lo, hi) as in the library.                        *)
(***************************************************************************)
RECURSIVE RunLen(_, _, _, _, _, _)
RunLen(a, b, i, j, ahi, bhi) ==
    IF i < ahi /\ j < bhi /\ a[i] = b[j]
    THEN 1 + RunLen(a, b, i + 1, j + 1, ahi, bhi)
    ELSE 0

\* <<i, j, k>>: the longest block a[i..i+k) = b[j..j+k), earliest in a, then
\* earliest in b; <<alo, blo, 0>> when nothing matches
find_longest_match(a, b, alo, ahi, blo, bhi) ==
    LET Cells == (alo..(ahi - 1)) \X (blo..(bhi - 1))
        K == [c \in Cells |-> RunLen(a, b, c[1], c[2], ahi, bhi)]
        Best == {c \in Cells :
                    /\ K[c] > 0
                    /\ \A d \in Cells :
                          \/ K[d] < K[c]
                          \/ /\ K[d] = K[c]
                             /\ \/ c[1] < d[1]
                                \/ c[1] = d[1] /\ c[2] <= d[2]}
    IN  IF Best = {} THEN <<alo, blo, 0>>
        ELSE LET c == CHOOSE c \in Best : TRUE IN <<c[1], c[2], K[c]>>

\* sum of the sizes of get_matching_blocks() inside the window
RECURSIVE MatchCount(_, _, _, _, _, _)
MatchCount(a, b, alo, ahi, blo, bhi) ==
    LET m == find_longest_match(a, b, alo, ahi, blo, bhi)
        i == m[1]
        j == m[2]
        k == m[3]
    IN  IF k = 0 THEN 0
        ELSE k
             + (IF alo < i /\ blo < j
                THEN MatchCount(a, b, alo, i, blo, j) ELSE 0)
             + (IF i + k < ahi /\ j + k < bhi
                THEN MatchCount(a, b, i + k, ahi, j + k, bhi) ELSE 0)

\* SequenceMatcher(None, a, b).ratio() as the fraction <<num, den>>
ratio(a, b) ==
    IF Len(a) + Len(b) = 0 THEN <<1, 1>>
    ELSE <<2 * MatchCount(a, b, 1, Len(a) + 1, 1, Len(b) + 1), Len(a) + Len(b)>>

\* the cutoff 0.6 as the fraction 6/10
CutoffNum == 6
CutoffDen == 10

AtLeastCutoff(r) == r[1] * CutoffDen >= CutoffNum * r[2]

FracLess(r, q) == r[1] * q[2] < q[1] * r[2]

\* difflib.get_close_matches(word, possibilities, n=1, cutoff=0.6): the set
\* holding the best match, or the empty set
get_close_matches(word, possibilities) ==
    LET score == [x \in possibilities |-> ratio(x, word)]
        Close == {x \in possibilities : AtLeastCutoff(score[x])}
        Below(x, y) ==
            \/ FracLess(score[x], score[y])
            \/ /\ score[x][1] * score[y][2] = score[y][1] * score[x][2]
               /\ StrLess(x, y)
    IN  {x \in Close : \A y \in Close : y = x \/ Below(y, x)}

(***************************************************************************)
(* Exceptions and HTTP responses.  A raised exception travels as the value *)
(* Raise(kind).  A response is either a transport failure (requests.get    *)
(* raises) or a status with a body; Malformed is a body response.json()    *)
(* cannot decode.                                                          *)
(***************************************************************************)
Raise(kind) == [t |-> "raise", v |-> kind]
IsRaise(x) == x.t = "raise"

Malformed == [t |-> "malformed"]
NoResponse == [kind |-> "none"]
TransportError(e) == [kind |-> "exc", exc |-> e]
Http(status, body) == [kind |-> "http", status |-> status, body |-> body]

\* requests.get(...); response.raise_for_status(); response.json()
JsonOf(r) ==
    IF r.kind = "exc" THEN Raise(r.exc)
    ELSE IF r.status >= 400 THEN Raise("HTTPError")
    ELSE IF r.body = Malformed THEN Raise("JSONDecodeError")
    ELSE r.body

\* data.get("payload") if "payload" in data else data
\* (`in` is a key test on a dict, an element test on a list, a substring test
\* on a str, and a TypeError on None or a number; no list or str of the model
\* holds the text "payload")
Unwrap(data) ==
    CASE data.t = "dict" -> IF HasKey(data, "payload") THEN data.v.payload ELSE data
      [] data.t = "list" -> data
      [] data.t = "str"  -> data
      [] OTHER -> Raise("TypeError")

(***************************************************************************)
(* resolve_station_code, strategy 2: what the search response leads to.    *)
(***************************************************************************)
Return(x) == [returns |-> TRUE, value |-> x]
FallThrough == [returns |-> FALSE]

\* direct_bypass without the all-digits test
direct_bypass_upper_only(clean_name) ==
    Len(clean_name) <= 6 /\ isupper(clean_name)

\* direct_bypass with the length test off by one
direct_bypass_below_six(clean_name) ==
    \/ isdigit(clean_name)
    \/ Len(clean_name) < 6 /\ isupper(clean_name)

direct_bypass(clean_name) ==
    \/ isdigit(clean_name)
    \/ Len(clean_name) <= 6 /\ isupper(clean_name)

\* api_search without the unwrapping of the "payload" envelope
api_search_bare_only(r) ==
    LET results == JsonOf(r)
    IN  IF IsRaise(results) THEN FallThrough
        ELSE IF Truthy(results) /\ results.t = "list" /\ Len(results.v) > 0
        THEN IF results.v[1].t = "dict"
             THEN Return(Get(results.v[1], "code", JNull))
             ELSE FallThrough
        ELSE FallThrough

api_search(r) ==
    LET data == JsonOf(r)
        results == IF IsRaise(data) THEN data ELSE Unwrap(data)
    IN  IF IsRaise(results) THEN FallThrough
        ELSE IF Truthy(results) /\ results.t = "list" /\ Len(results.v) > 0
        THEN IF results.v[1].t = "dict"
             THEN Return(Get(results.v[1], "code", JNull))
             ELSE FallThrough      \* AttributeError: no .get on the element
        ELSE FallThrough

(***************************************************************************)
(* resolve_station_code, strategy 3: the local index and the fuzzy match.  *)
(***************************************************************************)
\* The assignments station_map[key] = code made while the index is built:
\* Assigned(seq) holds them in order, Aborted stands for an exception raised
\* on the way.
Assigned(seq) == [ok |-> TRUE, v |-> seq]
Aborted == [ok |-> FALSE, v |-> <<>>]
Then(x, y) == IF x.ok /\ y.ok THEN Assigned(x.v \o y.v) ELSE Aborted

\* if names.get(k): station_map[names.get(k).lower()] = code
name_entry(names, k, code) ==
    LET n == Get(names, k, JNull)
    IN  IF ~Truthy(n) THEN Assigned(<<>>)
        ELSE IF n.t = "str" THEN Assigned(<< <<lower(n.v), code>> >>)
        ELSE Aborted               \* AttributeError: no .lower()

\* for syn in s.get("synoniemen", []): station_map[syn.lower()] = code
\* (a dict-valued synoniemen field is not part of the model)
synonym_entries(syns, code) ==
    CASE syns.t = "list" ->
            IF \E i \in 1..Len(syns.v) : syns.v[i].t # "str"
            THEN Aborted           \* AttributeError: no .lower()
            ELSE Assigned([i \in 1..Len(syns.v) |-> <<lower(syns.v[i].v), code>>])
      [] syns.t = "str" ->
            Assigned([i \in 1..Len(syns.v) |-> <<lower(<<syns.v[i]>>), code>>])
      [] OTHER -> Aborted          \* TypeError: not iterable

\* the body of the loop `for s in all_stations`
record_entries(s) ==
    IF s.t # "dict" THEN Aborted   \* AttributeError: no .get
    ELSE LET code == Get(s, "code", JNull)
             names == Get(s, "namen", EmptyDict)
         IN  IF names.t # "dict" THEN Aborted   \* AttributeError: no .get
             ELSE Then(Then(Then(name_entry(names, "lang", code),
                                 name_entry(names, "middel", code)),
                            name_entry(names, "kort", code)),
                       synonym_entries(Get(s, "synoniemen", L(<<>>)), code))

RECURSIVE all_entries(_)
all_entries(stations) ==
    IF stations = <<>> THEN Assigned(<<>>)
    ELSE Then(record_entries(Head(stations)), all_entries(Tail(stations)))

\* the dict the assignments leave behind: a later assignment to a key
\* overwrites an earlier one
station_map_of(entries) ==
    LET Last(k) == CHOOSE i \in 1..Len(entries) :
                      /\ entries[i][1] = k
                      /\ \A j \in (i + 1)..Len(entries) : entries[j][1] # k
    IN  [k \in {entries[i][1] : i \in 1..Len(entries)} |-> entries[Last(k)][2]]

\* lookup returning the matched key instead of the code stored under it
lookup_key(station_map, search_key) ==
    IF search_key \in DOMAIN station_map THEN station_map[search_key]
    ELSE LET matches == get_close_matches(search_key, DOMAIN station_map)
         IN  IF matches # {}
             THEN S(CHOOSE k \in matches : TRUE)
             ELSE JNull

\* lines 97-108: exact match, then fuzzy match, on a built index
lookup(station_map, search_key) ==
    IF search_key \in DOMAIN station_map THEN station_map[search_key]
    ELSE LET matches == get_close_matches(search_key, DOMAIN station_map)
         IN  IF matches # {}
             THEN station_map[CHOOSE k \in matches : TRUE]
             ELSE JNull

\* lines 78-113: the value resolve_station_code returns once the directory
\* response r is in
local_fallback(clean_name, r) ==
    LET data == JsonOf(r)
        all_stations == IF IsRaise(data) THEN data ELSE Unwrap(data)
    IN  IF IsRaise(all_stations) THEN JNull
        ELSE IF ~Truthy(all_stations) THEN JNull
        ELSE IF all_stations.t # "list" THEN JNull   \* iterating it raises
        ELSE LET built == all_entries(all_stations.v)
             IN  IF ~built.ok THEN JNull
                 ELSE lookup(station_map_of(built.v), lower(clean_name))

(***************************************************************************)
(* The inputs of the model: what callers pass and what the NS API answers. *)
(***************************************************************************)
QueryChars == {"A", "a", "b", "1", " "}

StringsUpTo(chars, n) == UNION {[1..k -> chars] : k \in 0..n}

\* names picked for the cases of the resolver: digits, upper-case runs at and
\* just beyond the length the short-code bypass takes, upper case mixed with a
\* digit, surrounding blanks, mixed case, exact and close index keys
NamedQueries ==
    {<<"1", "1">>,
     <<"A", "A", "A", "A", "A", "A">>,
     <<"A", "A", "A", "A", "A", "A", "A">>,
     <<"A", "1">>,
     <<" ", "a">>,
     <<"A", " ", "b">>,
     <<"a", "b">>,
     <<"a", "a">>}

\* a station argument: None or a str
Queries ==
    {JNull} \cup {S(q) : q \in StringsUpTo(QueryChars, MaxQueryLen) \cup NamedQueries}

\* the station arguments of the tools that are not driven through all Queries
FewQueries == {JNull, S(<<"A">>), S(<<"a">>)}

\* the argument pairs of the two-station tools: at most one of the two
\* needs the network to resolve
StationPairs ==
    {p \in FewQueries \X FewQueries : p[1] # S(<<"a">>) \/ p[2] # S(<<"a">>)}

Tools == {"ns_plan_trip", "ns_get_departures", "ns_get_arrivals",
          "ns_check_disruptions", "ns_get_prices", "ns_get_ov_fiets"}

\* how many station arguments a tool resolves
NumStations(tl) == IF tl \in {"ns_plan_trip", "ns_get_prices"} THEN 2 ELSE 1

Invocations ==
    {<<"ns_get_departures", <<q>> >> : q \in Queries}
    \cup {<<tl, <<q>> >> : tl \in {"ns_get_arrivals", "ns_check_disruptions",
                                  "ns_get_ov_fiets"},
                          q \in FewQueries}
    \cup {<<tl, p>> : tl \in {"ns_plan_trip", "ns_get_prices"}, p \in StationPairs}

ListsUpTo(elems, n) == UNION {[1..k -> elems] : k \in 0..n}

\* a station list comes bare or wrapped in {"payload": ...}
Shapes(lists) ==
    {L(l) : l \in lists} \cup {D([payload |-> L(l)]) : l \in lists}

\* bodies that carry no station record
OddBodies ==
    {Malformed, JNull, N(7), S(<<>>), EmptyDict, D([payload |-> JNull]),
     D([message |-> S(<<"b">>)]), L(<<JNull>>)}

FailedResponses ==
    {TransportError("Timeout"), Http(404, JNull), Http(500, JNull)}

\* the records of a search result: with a code, with an empty code, without
HitRecords ==
    {D([code |-> S(<<"X">>)]), D([code |-> S(<<"Y">>)]), D([code |-> S(<<>>)]),
     EmptyDict}

SearchResponses ==
    FailedResponses
    \cup {Http(200, b) : b \in OddBodies \cup Shapes(ListsUpTo(HitRecords, MaxHits))}

\* elements of the station directory
DirRecords ==
    {D([code |-> S(<<"X">>),
        namen |-> D([lang |-> S(<<"A", "b">>), kort |-> S(<<"a">>)]),
        synoniemen |-> L(<< S(<<"a", " ", "b">>) >>)]),
     D([code |-> S(<<"Y">>), namen |-> D([lang |-> S(<<"a", "b">>)])]),
     D([code |-> S(<<>>), namen |-> D([lang |-> S(<<"b">>), middel |-> S(<<>>)]),
        synoniemen |-> L(<<>>)]),
     D([namen |-> D([kort |-> S(<<"b">>)]),
        synoniemen |-> L(<< S(<<"b", "a">>), S(<<>>) >>)]),
     D([code |-> S(<<"X">>), synoniemen |-> L(<< S(<<"a", "b", "b">>) >>)]),
     D([code |-> S(<<"Y">>), namen |-> JNull]),
     JNull}

DirResponses ==
    FailedResponses
    \cup {Http(200, b) : b \in OddBodies \cup Shapes(ListsUpTo(DirRecords, MaxDir))}

(***************************************************************************)
(* Trip candidates and the responses of the trip-planning endpoint.        *)
(***************************************************************************)
ICD == <<"I", "C", "D">>
ECC == <<"E", "C", "C">>
IC == <<"I", "C">>
NORMAL == <<"N", "O", "R", "M", "A", "L">>
CANCELLED == <<"C", "A", "N", "C", "E", "L", "L", "E", "D">>
DELAYED == <<"D", "E", "L", "A", "Y", "E", "D">>

Leg(cat) == D([product |-> D([categoryCode |-> S(cat)])])

TripCandidates ==
    {D([status |-> S(NORMAL), legs |-> L(<<Leg(IC), Leg(ICD)>>)]),
     D([status |-> S(CANCELLED), legs |-> L(<<Leg(ECC), D([product |-> JNull])>>)]),
     D([status |-> S(CANCELLED), legs |-> L(<<>>)]),
     D([status |-> S(DELAYED),
        legs |-> L(<<Leg(IC), D([product |-> EmptyDict]), EmptyDict>>)]),
     D([legs |-> L(<<Leg(ICD)>>)]),
     D([status |-> JNull]),
     D([status |-> S(NORMAL), legs |-> JNull]),
     D([status |-> S(NORMAL), legs |-> L(<<D([product |-> JNull]), Leg(ICD)>>)])}

TripResponses ==
    FailedResponses
    \cup {Http(200, b) : b \in {Malformed, JNull, L(<<>>), EmptyDict,
                                D([trips |-> JNull])}}
    \cup {Http(200, D([trips |-> L(l)])) : l \in ListsUpTo(TripCandidates, MaxTrips)}

\* what the other downstream endpoints answer
OtherResponses ==
    FailedResponses
    \cup {Http(200, b) : b \in {Malformed, JNull, L(<<>>), EmptyDict,
                                D([payload |-> JNull]),
                                D([payload |-> EmptyDict]),
                                D([payload |-> D([departures |-> L(<<N(1)>>),
                                                  arrivals |-> L(<<N(2)>>)])])}}

(***************************************************************************)
(* The ranking of ns_plan_trip.                                            *)
(***************************************************************************)
B(b) == [t |-> "bool", v |-> b]

preferred_codes == {ICD, ECC}

\* the loop over the legs: B(TRUE) at the first preferred leg, B(FALSE) when
\* the legs run out, a Raise when a leg or its product has no .get
RECURSIVE has_preferred(_)
has_preferred(legs) ==
    IF legs = <<>> THEN B(FALSE)
    ELSE LET leg == Head(legs)
             prod == IF leg.t = "dict" THEN Get(leg, "product", EmptyDict)
                     ELSE Raise("AttributeError")
             cat_code == IF prod.t = "dict" THEN Get(prod, "categoryCode", S(<<>>))
                         ELSE Raise("AttributeError")
         IN  IF IsRaise(cat_code) THEN cat_code
             ELSE IF cat_code.t = "str" /\ cat_code.v \in preferred_codes
                  THEN B(TRUE)
                  ELSE has_preferred(Tail(legs))

\* N(score), or a Raise
get_trip_score(trip) ==
    IF trip.t # "dict" THEN Raise("AttributeError")
    ELSE LET status == Get(trip, "status", JNull)
             is_cancelled == status.t = "str" /\ status.v = CANCELLED
             legs == Get(trip, "legs", L(<<>>))
             preferred ==
                 CASE legs.t = "list" -> has_preferred(legs.v)
                   [] legs.t \in {"str", "dict"} ->
                        IF Truthy(legs) THEN Raise("AttributeError") ELSE B(FALSE)
                   [] OTHER -> Raise("TypeError")
         IN  IF IsRaise(preferred) THEN preferred
             ELSE IF preferred.v /\ ~is_cancelled THEN N(3)
             ELSE IF ~preferred.v /\ ~is_cancelled THEN N(2)
             ELSE IF preferred.v /\ is_cancelled THEN N(1)
             ELSE N(0)

\* an ascending sort read backwards: descending, but ties come out reversed
RECURSIVE sort_descending_unstable(_, _)
sort_descending_unstable(items, key) ==
    IF items = <<>> THEN <<>>
    ELSE LET n == Len(items)
             init == sort_descending_unstable(SubSeq(items, 1, n - 1), key)
             x == items[n]
             pos == Cardinality({i \in 1..Len(init) : key[init[i]] > key[x]})
         IN  SubSeq(init, 1, pos) \o <<x>> \o SubSeq(init, pos + 1, Len(init))

\* list.sort(key=..., reverse=True) on already computed keys: a stable sort,
\* larger keys first
RECURSIVE sort_descending(_, _)
sort_descending(items, key) ==
    IF items = <<>> THEN <<>>
    ELSE LET n == Len(items)
             init == sort_descending(SubSeq(items, 1, n - 1), key)
             x == items[n]
             pos == Cardinality({i \in 1..Len(init) : key[init[i]] >= key[x]})
         IN  SubSeq(init, 1, pos) \o <<x>> \o SubSeq(init, pos + 1, Len(init))

\* trips.sort(key=get_trip_score, reverse=True): the sorted list, or the
\* Raise of the first trip whose score cannot be computed
rank(trips) ==
    LET score == [i \in 1..Len(trips) |-> get_trip_score(trips[i])]
        Bad == {i \in 1..Len(trips) : IsRaise(score[i])}
        key == [x \in {trips[i] : i \in 1..Len(trips)} |->
                   score[CHOOSE i \in 1..Len(trips) : trips[i] = x].v]
    IN  IF Bad # {}
        THEN score[CHOOSE i \in Bad : \A j \in Bad : i <= j]
        ELSE L(sort_descending(trips, key))

(***************************************************************************)
(* What the tools return and request.                                      *)
(***************************************************************************)
Lit(text) == [t |-> "lit", v |-> text]

\* str(x) inside an f-string
Format(x) == IF x.t = "null" THEN S(<<"N", "o", "n", "e">>) ELSE x

\* an error string, as the sequence of its parts
Msg(parts) == [t |-> "msg", v |-> parts]

\* unresolved_error naming the stripped query instead of the argument
unresolved_error_stripped(tl, idx, query) ==
    Msg(<<Lit("Error: Could not find station '"),
          IF query.t = "str" THEN S(strip(query.v)) ELSE Format(query),
          Lit("'.")>>)

\* the string a tool returns when argument idx does not resolve
unresolved_error(tl, idx, query) ==
    CASE tl = "ns_plan_trip" /\ idx = 1 ->
            Msg(<<Lit("Error: Could not find station code for origin '"),
                  Format(query), Lit("'.")>>)
      [] tl = "ns_plan_trip" /\ idx = 2 ->
            Msg(<<Lit("Error: Could not find station code for destination '"),
                  Format(query), Lit("'.")>>)
      [] tl \in {"ns_get_departures", "ns_get_arrivals"} ->
            Msg(<<Lit("Error: Could not find a station code for '"),
                  Format(query), Lit("'.")>>)
      [] tl = "ns_check_disruptions" ->
            Msg(<<Lit("Error: Could not find station '"),
                  Format(query), Lit("' to check disruptions.")>>)
      [] tl = "ns_get_prices" /\ idx = 1 ->
            Msg(<<Lit("Error: Invalid origin '"), Format(query), Lit("'")>>)
      [] tl = "ns_get_prices" /\ idx = 2 ->
            Msg(<<Lit("Error: Invalid destination '"), Format(query), Lit("'")>>)
      [] tl = "ns_get_ov_fiets" ->
            Msg(<<Lit("Error: Could not find station code for '"),
                  Format(query), Lit("'.")>>)

\* the string of the tool's `except Exception as e` branch
exception_error(tl, e) == Msg(<<Lit("Error in "), Lit(tl), Lit(": "), Lit(e.v)>>)

StationsEndpoint == "/nsapp-stations/v3"

endpoint_of(tl) ==
    CASE tl = "ns_plan_trip" -> "/reisinformatie-api/api/v3/trips"
      [] tl = "ns_get_departures" -> "/reisinformatie-api/api/v2/departures"
      [] tl = "ns_get_arrivals" -> "/reisinformatie-api/api/v2/arrivals"
      [] tl = "ns_check_disruptions" -> "/disruptions/v3"
      [] tl = "ns_get_prices" -> "/reisinformatie-api/api/v3/price"
      [] tl = "ns_get_ov_fiets" -> "/places-api/v2/ovfiets"

Request(endpoint, params) == [endpoint |-> endpoint, params |-> params]

\* the station parameters of the downstream request (the parameters that do
\* not come from a station argument are left out)
params_of(tl, resolved) ==
    CASE tl \in {"ns_plan_trip", "ns_get_prices"} ->
            D([fromStation |-> resolved[1], toStation |-> resolved[2]])
      [] tl \in {"ns_get_departures", "ns_get_arrivals"} ->
            D([station |-> resolved[1]])
      [] tl = "ns_check_disruptions" ->
            IF resolved = <<>> THEN EmptyDict ELSE D([station |-> resolved[1]])
      [] tl = "ns_get_ov_fiets" -> D([station_code |-> resolved[1]])

(***************************************************************************)
(* The state: one tool invocation, from entry to its return value.         *)
(***************************************************************************)
VARIABLES
    tool,        \* the tool invoked
    args,        \* its station arguments, as the caller passed them
    api_key,     \* whether NS_API_KEY is set in the environment
    pc,          \* where the invocation stands
    argIdx,      \* the argument resolve_station_code is working on (0: none)
    clean_name,  \* resolve_station_code: the stripped name
    response,    \* the response the code last received within the current call
    ret,         \* the value resolve_station_code returned
    codes,       \* the codes resolved so far, in argument order
    requests,    \* every HTTP request issued so far, in order
    result       \* the tool's return value once pc = "done"

vars == <<tool, args, api_key, pc, argIdx, clean_name, response, ret, codes,
          requests, result>>

Init ==
    /\ \E inv \in Invocations : tool = inv[1] /\ args = inv[2]
    /\ api_key \in BOOLEAN
    /\ pc = "entry"
    /\ argIdx = 0
    /\ clean_name = <<>>
    /\ response = NoResponse
    /\ ret = JNull
    /\ codes = <<>>
    /\ requests = <<>>
    /\ result = JNull

\* requests.get(endpoint, headers=get_headers(), params=...) inside the tool's
\* try block: get_headers raises when the key is missing, otherwise the
\* request goes out
IssueDownstream(resolved) ==
    IF api_key
    THEN /\ requests' = Append(requests, Request(endpoint_of(tool), params_of(tool, resolved)))
         /\ pc' = "downstream_wait"
         /\ result' = result
    ELSE /\ requests' = requests
         /\ pc' = "done"
         /\ result' = exception_error(tool, Raise("ValueError"))

\* a tool starts: every tool first resolves its first station argument,
\* except ns_check_disruptions called without a station
ToolEntry ==
    /\ pc = "entry"
    /\ IF tool = "ns_check_disruptions" /\ ~Truthy(args[1])
       THEN /\ IssueDownstream(<<>>)
            /\ argIdx' = argIdx
       ELSE /\ pc' = "resolve"
            /\ argIdx' = 1
            /\ UNCHANGED <<requests, result>>
    /\ UNCHANGED <<tool, args, api_key, clean_name, response, ret, codes>>

\* resolve_station_code up to its first requests.get: the empty check, the
\* strip, the two bypasses, and the search request
ResolveStart ==
    /\ pc = "resolve"
    /\ LET station_name == args[argIdx]
           clean == IF Truthy(station_name) THEN strip(station_name.v) ELSE <<>>
       IN  /\ clean_name' = clean
           /\ IF ~Truthy(station_name)
              THEN ret' = JNull /\ pc' = "resolved" /\ requests' = requests
              ELSE IF direct_bypass(clean)
              THEN ret' = S(clean) /\ pc' = "resolved" /\ requests' = requests
              ELSE IF ~api_key
              \* get_headers raises inside the search's try block: the except
              \* clause swallows it and the code goes on to the fallback
              THEN ret' = ret /\ pc' = "fallback" /\ requests' = requests
              ELSE /\ requests' = Append(requests,
                          Request(StationsEndpoint, D([q |-> S(clean), limit |-> N(1)])))
                   /\ pc' = "search_wait"
                   /\ ret' = ret
    /\ UNCHANGED <<tool, args, api_key, argIdx, response, codes, result>>

\* a search that gives up as soon as it has no record to return
SearchResponse_gives_up(r) ==
    /\ pc = "search_wait"
    /\ response' = r
    /\ ret' = IF api_search(r).returns THEN api_search(r).value ELSE JNull
    /\ pc' = "resolved"
    /\ UNCHANGED <<tool, args, api_key, argIdx, clean_name, codes, requests, result>>

\* the search response arrives: return the first record's code, or leave the
\* try block (by its end or through its except clause) for the fallback
SearchResponse(r) ==
    /\ pc = "search_wait"
    /\ response' = r
    /\ IF api_search(r).returns
       THEN /\ ret' = api_search(r).value
            /\ pc' = "resolved"
       ELSE /\ ret' = ret
            /\ pc' = "fallback"
    /\ UNCHANGED <<tool, args, api_key, argIdx, clean_name, codes, requests, result>>

\* the fallback starts: get_headers raises when the key is missing and the
\* except clause makes the function return None, otherwise the request for
\* the whole directory goes out
FallbackStart ==
    /\ pc = "fallback"
    /\ IF api_key
       THEN /\ requests' = Append(requests, Request(StationsEndpoint, EmptyDict))
            /\ pc' = "dir_wait"
            /\ ret' = ret
       ELSE /\ requests' = requests
            /\ pc' = "resolved"
            /\ ret' = JNull
    /\ UNCHANGED <<tool, args, api_key, argIdx, clean_name, response, codes, result>>

\* a directory fetch that is tried again when it fails
DirResponse_retry(r) ==
    /\ pc = "dir_wait"
    /\ response' = r
    /\ IF IsRaise(JsonOf(r))
       THEN /\ requests' = Append(requests, Request(StationsEndpoint, EmptyDict))
            /\ UNCHANGED <<pc, ret>>
       ELSE /\ ret' = local_fallback(clean_name, r)
            /\ pc' = "resolved"
            /\ requests' = requests
    /\ UNCHANGED <<tool, args, api_key, argIdx, clean_name, codes, result>>

\* the directory response arrives: index, exact match, fuzzy match
DirResponse(r) ==
    /\ pc = "dir_wait"
    /\ response' = r
    /\ ret' = local_fallback(clean_name, r)
    /\ pc' = "resolved"
    /\ UNCHANGED <<tool, args, api_key, argIdx, clean_name, codes, requests, result>>

\* back in the tool: the `if not code` check, then the next station argument
\* or the downstream request
AfterResolve ==
    /\ pc = "resolved"
    /\ IF ~Truthy(ret)
       THEN /\ result' = unresolved_error(tool, argIdx, args[argIdx])
            /\ pc' = "done"
            /\ UNCHANGED <<codes, argIdx, requests>>
       ELSE /\ codes' = Append(codes, ret)
            /\ IF argIdx < NumStations(tool)
               THEN /\ argIdx' = argIdx + 1
                    /\ pc' = "resolve"
                    /\ UNCHANGED <<requests, result>>
               ELSE /\ argIdx' = 0
                    /\ IssueDownstream(Append(codes, ret))
    /\ clean_name' = <<>>
    /\ response' = NoResponse
    /\ ret' = JNull
    /\ UNCHANGED <<tool, args, api_key>>

Finish(value) ==
    /\ pc' = "done"
    /\ result' = IF IsRaise(value) THEN exception_error(tool, value) ELSE value
    /\ UNCHANGED <<tool, args, api_key, argIdx, clean_name, ret, codes, requests>>

\* ns_plan_trip, lines 141-182
PlanTripResponse(r) ==
    /\ pc = "downstream_wait" /\ tool = "ns_plan_trip"
    /\ response' = r
    /\ LET data == JsonOf(r)
           trips == IF IsRaise(data) THEN data
                    ELSE IF data.t # "dict" THEN Raise("AttributeError")
                    ELSE Get(data, "trips", L(<<>>))
       IN  Finish(IF IsRaise(trips) THEN trips
                  ELSE IF trips.t # "list" THEN Raise("AttributeError")
                  ELSE rank(trips.v))

\* data.get("payload", {}).get(field, [])
payload_field(data, field) ==
    IF IsRaise(data) THEN data
    ELSE IF data.t # "dict" THEN Raise("AttributeError")
    ELSE LET payload == Get(data, "payload", EmptyDict)
         IN  IF payload.t # "dict" THEN Raise("AttributeError")
             ELSE Get(payload, field, L(<<>>))

\* ns_get_departures, lines 203-211
DeparturesResponse(r) ==
    /\ pc = "downstream_wait" /\ tool = "ns_get_departures"
    /\ response' = r
    /\ IF r.kind = "http" /\ r.status = 500
       THEN Finish(Msg(<<Lit("NS API returned 500 Error. The code '"),
                         Format(codes[1]), Lit("' might be invalid.")>>))
       ELSE Finish(payload_field(JsonOf(r), "departures"))

\* ns_get_arrivals, lines 227-232
ArrivalsResponse(r) ==
    /\ pc = "downstream_wait" /\ tool = "ns_get_arrivals"
    /\ response' = r
    /\ Finish(payload_field(JsonOf(r), "arrivals"))

\* ns_check_disruptions, ns_get_prices, ns_get_ov_fiets: return response.json()
JsonResponse(r) ==
    /\ pc = "downstream_wait"
    /\ tool \in {"ns_check_disruptions", "ns_get_prices", "ns_get_ov_fiets"}
    /\ response' = r
    /\ Finish(JsonOf(r))

Next ==
    \/ ToolEntry
    \/ ResolveStart
    \/ \E r \in SearchResponses : SearchResponse(r)
    \/ FallbackStart
    \/ \E r \in DirResponses : DirResponse(r)
    \/ AfterResolve
    \/ \E r \in TripResponses : PlanTripResponse(r)
    \/ \E r \in OtherResponses : DeparturesResponse(r)
    \/ \E r \in OtherResponses : ArrivalsResponse(r)
    \/ \E r \in OtherResponses : JsonResponse(r)

Spec == Init /\ [][Next]_vars

(***************************************************************************)
(* Properties.                                                             *)
(***************************************************************************)
\* the argument resolve_station_code is working on
Query == args[argIdx]

Returned == pc = "resolved"

\* a str made of decimal digits only / of upper-case letters only
AllDigits(q) ==
    q.t = "str" /\ q.v # <<>> /\ \A i \in 1..Len(q.v) : q.v[i] \in DigitChars
AllUpper(q) ==
    q.t = "str" /\ q.v # <<>> /\ \A i \in 1..Len(q.v) : q.v[i] \in UpperChars

IsSearchRequest(req) == req.endpoint = StationsEndpoint /\ HasKey(req.params, "q")
IsDirectoryRequest(req) == req.endpoint = StationsEndpoint /\ req.params = EmptyDict
IsDownstreamRequest(req) == req.endpoint # StationsEndpoint

\* the records of a successful station response, bare or under "payload";
\* <<>> when the response carries no list
RecordsOf(r) ==
    IF r.kind # "http" \/ r.status # 200 \/ r.body = Malformed THEN <<>>
    ELSE IF r.body.t = "list" THEN r.body.v
    ELSE IF r.body.t = "dict" /\ HasKey(r.body, "payload")
            /\ r.body.v.payload.t = "list"
    THEN r.body.v.payload.v
    ELSE <<>>

\* the value of a record's code field (None when the record has none)
CodeOf(rec) == IF HasKey(rec, "code") THEN rec.v.code ELSE JNull

\* C1: resolve_station_code returns a non-empty code string or None, never
\* an empty string.
C1_NeverEmptyString ==
    Returned => \/ ret = JNull
                \/ ret.t = "str" /\ ret.v # <<>>

\* C2: an all-digits argument is returned unchanged, in the one step from
\* call to return, and no request is issued on the way.
C2_DigitsPassThrough ==
    [][(pc = "resolve" /\ AllDigits(Query))
        => (pc' = "resolved" /\ ret' = Query /\ requests' = requests)]_vars

C2_Witness ==
    /\ Returned
    /\ Query = S(<<"1", "1">>)
    /\ ret = S(<<"1", "1">>)
    /\ requests = <<>>

\* C3: an argument of at most 6 characters, all upper-case letters, is
\* returned unchanged and no request is issued on the way.
C3_ShortCodePassThrough ==
    [][(pc = "resolve" /\ AllUpper(Query) /\ Len(Query.v) <= 6)
        => (pc' = "resolved" /\ ret' = Query /\ requests' = requests)]_vars

C3_Witness ==
    /\ Returned
    /\ Query = S(<<"A", "A", "A", "A", "A", "A">>)
    /\ ret = Query
    /\ requests = <<>>

\* C4: when the search response carries a list, bare or under "payload",
\* whose first element is a record, resolve_station_code returns that record's
\* code and does not request the directory.
C4_FirstSearchRecord ==
    [][(pc = "search_wait" /\ pc' # "search_wait"
        /\ RecordsOf(response') # <<>> /\ RecordsOf(response')[1].t = "dict")
        => (/\ pc' = "resolved"
            /\ ret' = CodeOf(RecordsOf(response')[1])
            /\ requests' = requests)]_vars

C4_Witness ==
    /\ Returned
    /\ response = Http(200, D([payload |-> L(<<D([code |-> S(<<"X">>)])>>)]))
    /\ ret = S(<<"X">>)
    /\ Len(requests) = 1
    /\ IsSearchRequest(requests[1])

\* the text of the query as it appears in a message
TextOf(q) == IF q.t = "str" THEN q.v ELSE <<"N", "o", "n", "e">>

NamesQuery(msg, q) ==
    /\ msg.t = "msg"
    /\ \E i \in 1..Len(msg.v) : msg.v[i].t = "str" /\ msg.v[i].v = TextOf(q)

\* C5: when resolve_station_code returns None, the tool returns at once an
\* error string naming the argument as the caller passed it, records no code,
\* and has sent and sends no request to its downstream endpoint.
C5_UnresolvedPropagates ==
    [][(Returned /\ ret = JNull)
        => (/\ pc' = "done"
            /\ NamesQuery(result', Query)
            /\ codes' = codes
            /\ requests' = requests
            /\ \A i \in 1..Len(requests') : ~IsDownstreamRequest(requests'[i]))]_vars

C5_Witness ==
    /\ pc = "done"
    /\ tool = "ns_plan_trip"
    /\ args = <<S(<<"A">>), S(<<"a">>)>>
    /\ result = unresolved_error("ns_plan_trip", 2, S(<<"a">>))
    /\ codes = <<S(<<"A">>)>>
    /\ Len(requests) = 2

\* the index keys one directory record contributes
KeysOf(rec) ==
    IF rec.t = "dict" /\ record_entries(rec).ok
    THEN {record_entries(rec).v[i][1] : i \in 1..Len(record_entries(rec).v)}
    ELSE {}

\* C6: a value other than None that resolve_station_code returns is the
\* stripped argument (no response was needed), or the code field of the first
\* record of the search response, or the code field of a directory record
\* one of whose keys equals or is close to the lower-cased query.
C6_CodeIsCopied ==
    (Returned /\ ret # JNull) =>
        IF response = NoResponse
        THEN ret = S(strip(Query.v)) /\ direct_bypass(strip(Query.v))
        ELSE IF IsSearchRequest(requests[Len(requests)])
        THEN /\ RecordsOf(response) # <<>>
             /\ HasKey(RecordsOf(response)[1], "code")
             /\ ret = RecordsOf(response)[1].v.code
        ELSE \E i \in 1..Len(RecordsOf(response)) :
                LET rec == RecordsOf(response)[i]
                IN  /\ rec.t = "dict" /\ HasKey(rec, "code")
                    /\ ret = rec.v.code
                    /\ \E k \in KeysOf(rec) :
                          \/ k = lower(clean_name)
                          \/ AtLeastCutoff(ratio(k, lower(clean_name)))

C6_Witness ==
    /\ Returned
    /\ clean_name = <<"a", "a">>
    /\ ret = S(<<"X">>)
    /\ IsDirectoryRequest(requests[Len(requests)])
    /\ Len(RecordsOf(response)) = 2

\* ns_plan_trip has returned after the trip-planning endpoint answered
PlanTripDone == pc = "done" /\ tool = "ns_plan_trip" /\ response # NoResponse

\* the response of the trip-planning endpoint carries a candidate list
HasCandidates ==
    /\ response.kind = "http" /\ response.status = 200
    /\ response.body # Malformed
    /\ response.body.t = "dict" /\ HasKey(response.body, "trips")
    /\ response.body.v.trips.t = "list"

Candidates == response.body.v.trips.v

Reorderings(n) == {p \in [1..n -> 1..n] : \A i, j \in 1..n : p[i] = p[j] => i = j}

\* C7: a trip list that ns_plan_trip returns holds the received candidates
\* by descending score, candidates of equal score in the order received.
C7_StableDescending ==
    (PlanTripDone /\ HasCandidates /\ result.t = "list") =>
        \E p \in Reorderings(Len(Candidates)) :
            /\ Len(result.v) = Len(Candidates)
            /\ \A i \in 1..Len(Candidates) : result.v[i] = Candidates[p[i]]
            /\ \A i, j \in 1..Len(Candidates) :
                  i < j =>
                    LET si == get_trip_score(Candidates[p[i]]).v
                        sj == get_trip_score(Candidates[p[j]]).v
                    IN  si > sj \/ (si = sj /\ p[i] < p[j])

C7_Witness ==
    /\ PlanTripDone /\ HasCandidates
    /\ Candidates = <<D([status |-> JNull]),
                      D([legs |-> L(<<Leg(ICD)>>)]),
                      D([status |-> S(DELAYED),
                         legs |-> L(<<Leg(IC), D([product |-> EmptyDict]), EmptyDict>>)])>>
    /\ result = L(<<Candidates[2], Candidates[1], Candidates[3]>>)

\* C8: for every candidate list received, ns_plan_trip returns a list that
\* is a permutation of it, each candidate as received.
C8_Permutation ==
    (PlanTripDone /\ HasCandidates) =>
        /\ result.t = "list"
        /\ Len(result.v) = Len(Candidates)
        /\ \E p \in Reorderings(Len(Candidates)) :
              \A i \in 1..Len(Candidates) : result.v[i] = Candidates[p[i]]

\* the legs of a candidate that can be read: <<>> when legs is absent or
\* is not a list
LegsOf(trip) ==
    IF HasKey(trip, "legs") /\ trip.v.legs.t = "list" THEN trip.v.legs.v ELSE <<>>

\* some leg's product category code is in the preferred set
SomeLegPreferred(trip) ==
    \E i \in 1..Len(LegsOf(trip)) :
        LET leg == LegsOf(trip)[i]
        IN  /\ leg.t = "dict" /\ HasKey(leg, "product")
            /\ leg.v.product.t = "dict" /\ HasKey(leg.v.product, "categoryCode")
            /\ leg.v.product.v.categoryCode \in {S(ICD), S(ECC)}

IsCancelled(trip) == HasKey(trip, "status") /\ trip.v.status = S(CANCELLED)

\* the score table of the ranking
TableScore(trip) ==
    IF SomeLegPreferred(trip)
    THEN IF IsCancelled(trip) THEN 1 ELSE 3
    ELSE IF IsCancelled(trip) THEN 0 ELSE 2

\* C9: get_trip_score gives every received candidate the score of the
\* table: 3 preferred and running, 2 not preferred and running, 1 preferred
\* and cancelled, 0 not preferred and cancelled.
C9_ScoreTable ==
    (PlanTripDone /\ HasCandidates) =>
        \A i \in 1..Len(Candidates) :
            get_trip_score(Candidates[i]) = N(TableScore(Candidates[i]))

\* C10: ranking never fails: whatever the candidates lack, ns_plan_trip
\* returns all of them as a list in descending order of the table's score.
C10_RankingNeverFails ==
    (PlanTripDone /\ HasCandidates) =>
        /\ result.t = "list"
        /\ Len(result.v) = Len(Candidates)
        /\ \A i, j \in 1..Len(result.v) :
              i < j => TableScore(result.v[i]) >= TableScore(result.v[j])

\* the search step failed: no response (transport error or timeout), a
\* status other than 200, a body that is not JSON or carries no list, an
\* empty list, or a list whose first element is not a record
SearchFailed(r) == RecordsOf(r) = <<>> \/ RecordsOf(r)[1].t # "dict"

\* the search step cannot start: the query takes no bypass and the API key
\* is missing
SearchWithoutKey ==
    /\ pc = "resolve"
    /\ Truthy(Query)
    /\ ~direct_bypass(strip(Query.v))
    /\ ~api_key

\* C11: for a query that takes no bypass, every failure of the search step
\* (transport error, status other than 2xx, missing API key, malformed body,
\* empty list) is swallowed: nothing is returned yet, the tool sees no
\* exception, and the next thing the code does is start the local fallback.
C11_SearchFailureFallsBack ==
    [][(\/ SearchWithoutKey
        \/ pc = "search_wait" /\ pc' # "search_wait" /\ SearchFailed(response'))
        => (/\ pc' = "fallback"
            /\ ret' = ret
            /\ result' = result
            /\ requests' = requests)]_vars

C11_Witness ==
    /\ pc = "dir_wait"
    /\ response = Http(200, D([payload |-> L(<<>>)]))
    /\ Len(requests) = 2
    /\ IsSearchRequest(requests[1])
    /\ IsDirectoryRequest(requests[2])

\* resolve_station_code returned from the fallback, with the directory
\* response in
FallbackReturned ==
    /\ Returned
    /\ response # NoResponse
    /\ requests # <<>>
    /\ IsDirectoryRequest(requests[Len(requests)])

\* the records of the fetched directory
Directory == RecordsOf(response)

\* the lower-cased names (full, medium, short; an empty one is no name) and
\* synonyms a directory element carries
LabelsOf(rec) ==
    IF rec.t # "dict" THEN {}
    ELSE LET names == Get(rec, "namen", EmptyDict)
             syns == Get(rec, "synoniemen", L(<<>>))
             fields == IF names.t # "dict" THEN {}
                       ELSE {f \in {"lang", "middel", "kort"} :
                                /\ Get(names, f, JNull).t = "str"
                                /\ Truthy(Get(names, f, JNull))}
             listed == IF syns.t # "list" THEN {}
                       ELSE {i \in 1..Len(syns.v) : syns.v[i].t = "str"}
         IN  {lower(Get(names, f, JNull).v) : f \in fields}
             \cup {lower(syns.v[i].v) : i \in listed}

\* the records of a directory that carry the key k
Carriers(recs, k) == {i \in 1..Len(recs) : k \in LabelsOf(recs[i])}

\* the keys of a directory that are close enough to the key searched for,
\* and the best of them
CloseKeys(recs, key) ==
    {k \in UNION {LabelsOf(recs[i]) : i \in 1..Len(recs)} :
        AtLeastCutoff(ratio(k, key))}
BestKeys(recs, key) ==
    {k \in CloseKeys(recs, key) :
        \A j \in CloseKeys(recs, key) : ~FracLess(ratio(k, key), ratio(j, key))}

\* C12: in the local fallback every lower-cased name and synonym of every
\* directory record is mapped to that record's code; a query equal to a key
\* resolves to the code of the record carrying that key (whatever other keys
\* are close), otherwise to the code of the record carrying the best key
\* whose similarity is at least the cutoff; a failed fetch, an empty
\* directory or no close key give None.
C12_FallbackLookup ==
    FallbackReturned =>
        LET key == lower(clean_name)
        IN  IF Directory = <<>> THEN ret = JNull
            ELSE IF Carriers(Directory, key) # {}
            THEN \A i \in Carriers(Directory, key) : ret = CodeOf(Directory[i])
            ELSE IF CloseKeys(Directory, key) = {} THEN ret = JNull
            ELSE \E k \in BestKeys(Directory, key) :
                    \A i \in Carriers(Directory, k) : ret = CodeOf(Directory[i])

\* the stripped query is made of digits only, or of at most 6 upper-case
\* letters
LooksLikeCode(q) ==
    \/ AllDigits(S(strip(q.v)))
    \/ AllUpper(S(strip(q.v))) /\ Len(strip(q.v)) <= 6

\* C13: only a stripped query made of digits only, or of at most 6 upper-case
\* letters, is returned by a bypass; every other non-empty query goes on to
\* the search step instead of being returned.
C13_BypassOnlyForCodes ==
    [][(pc = "resolve" /\ Truthy(Query) /\ ~LooksLikeCode(Query))
        => pc' \in {"search_wait", "fallback"}]_vars

\* a call of resolve_station_code is under way
InResolver == pc \in {"resolve", "search_wait", "fallback", "dir_wait"}

\* the step issues one request, the last of the log afterwards
Issues(IsKind(_)) ==
    /\ Len(requests') = Len(requests) + 1
    /\ SubSeq(requests', 1, Len(requests)) = requests
    /\ IsKind(requests'[Len(requests')])

\* C14: within one call of resolve_station_code the only requests are one
\* search request, issued as the call leaves its start, and one directory
\* request, issued after that search request was answered without a record;
\* once a request is answered the call never goes back to issue it again.
C14_RequestsOrdered ==
    [][/\ (InResolver /\ requests' # requests) =>
            \/ /\ pc = "resolve" /\ pc' = "search_wait"
               /\ Issues(IsSearchRequest)
            \/ /\ pc = "fallback" /\ pc' = "dir_wait"
               /\ Issues(IsDirectoryRequest)
               /\ IsSearchRequest(requests[Len(requests)])
               /\ SearchFailed(response)
       /\ pc = "search_wait" => pc' \in {"fallback", "resolved"}
       /\ pc = "fallback" => pc' \in {"dir_wait", "resolved"}
       /\ pc = "dir_wait" => pc' = "resolved" /\ requests' = requests]_vars

C14_Witness ==
    /\ Returned
    /\ response = Http(500, JNull)
    /\ ret = JNull
    /\ Len(requests) = 2
    /\ IsSearchRequest(requests[1])
    /\ IsDirectoryRequest(requests[2])

\* the directory's records in another order
Reordered(recs, p) == [i \in 1..Len(recs) |-> recs[p[i]]]

\* C15: the value the fallback returns does not depend on the order of the
\* records in the fetched directory: the same records in any other order
\* give the same value, also when two records share a name or synonym.
C15_OrderIrrelevant ==
    (FallbackReturned /\ Directory # <<>>) =>
        \A p \in Reorderings(Len(Directory)) :
            local_fallback(clean_name, Http(200, L(Reordered(Directory, p)))) = ret

====
